---- MODULE Spec2Model ----
(***************************************************************************)
(* Model of the ReactorSync synthetic data generator                       *)
(* (data-generator/src): the physics engine, the anomaly catalog and       *)
(* tracker, the telemetry cycle, its two sinks and the run/stop loop.      *)
(*                                                                         *)
(* Fixed-point units used for the floating point quantities of the code:   *)
(*   neutron flux      1e9 n/cm2/s   (1.2e13 = 12000)                      *)
(*   core temperature  0.01 degC     (285 = 28500)                         *)
(*   pressure          0.001 MPa     (12.5 = 12500)                        *)
(*   vibration         0.001 mm/s    (5 = 5000)                            *)
(*   tritium level     0.1 pCi/L     (1000 = 10000)                        *)
(*   anomaly factor    percent       (0.75 = 75, 1.0 = 100)                *)
(*   health score      0.01 point    (90 = 9000)                           *)
(*   time              ticks of 15 minutes (1 hour = 4)                    *)
(***************************************************************************)
EXTENDS Integers, Sequences, FiniteSets, TLC

\* ---------------------------------------------------------------- bounds
\* cycles the run loop may start
MaxCycles == 3
\* last value of the clock
MaxTime == 8
\* admin / environment calls of one run (inject, clear, stop, statistics, resolve)
MaxAdminCalls == 2
\* failing items of one run (a reading not generated, a send or a write refused)
MaxFailures == 1
\* readings of one run generated under strong noise
MaxRough == 2
\* slow store calls of one run
MaxSlow == 1
\* calls of one run that a sink never answers
MaxStall == 1
\* longest anomaly duration an inject call passes, in ticks
MaxDuration == 2
\* generation_interval the generator is constructed with, in ticks
GenerationInterval == 2
\* time a slow store call takes, in ticks (connection_pool.acquire() waits
\* without a timeout)
SlowSink == 3

\* last time_step of a direct call of the physics engine
MaxProbeStep == 3
\* largest anomaly factor of a direct call of the physics engine, in percent
MaxFactor == 2000
\* WebSocket clients of the backend
MaxClients == 3

\* ------------------------------------------------------------- constants
\* INTERVAL '1 hour' of the duplicate check, in ticks
DedupeWindow == 4

\* future.get(timeout=10) of a send, in ticks of the scheduler's clock
SendTimeout == 1

\* command_timeout=30 of the connection pool, in ticks of the scheduler's clock
CommandTimeout == 3

Max(a, b) == IF a >= b THEN a ELSE b
Min(a, b) == IF a <= b THEN a ELSE b

Metrics == {"neutron_flux", "core_temperature", "pressure", "vibration", "tritium_level"}

\* --------------------------------------------------------- reactor profiles
reactor_profiles ==
    [CANDU |-> [thermal_power |-> 3100, base_neutron_flux |-> 12000,
                base_temperature |-> 28500, base_pressure |-> 12500,
                control_rod_position |-> 50],
     SMR   |-> [thermal_power |-> 300, base_neutron_flux |-> 8000,
                base_temperature |-> 29500, base_pressure |-> 11000,
                control_rod_position |-> 45]]

\* reactor_profiles.get(reactor_type, reactor_profiles["CANDU"])
ProfileOf(reactor_type) ==
    IF reactor_type \in DOMAIN reactor_profiles
    THEN reactor_profiles[reactor_type]
    ELSE reactor_profiles["CANDU"]

\* ------------------------------------------- deterministic sinusoidal terms
\* Each table holds the term for time_step 0..15, rounded to the unit of
\* the metric it is added to.
\* (0.05*sin(0.1 t) + 0.02*sin(0.03 t)) in 1e-4
TimeVariationTable == <<0, 56, 111, 166, 219, 270, 318, 364, 406, 445, 480, 510, 536, 558, 574, 586>>
\* 5*sin(0.001 t) in 0.01 degC
CoolantSeasonalTable == <<0, 0, 1, 1, 2, 2, 3, 3, 4, 4, 5, 5, 6, 6, 7, 7>>
\* 0.1*sin(0.05 t) in 0.01 degC
ThermalLagTable == <<0, 0, 1, 1, 2, 2, 3, 3, 4, 4, 5, 5, 6, 6, 6, 7>>
\* 0.5*sin(0.2 t) in 0.001 MPa
PumpCycleTable == <<0, 99, 195, 282, 359, 421, 466, 493, 500, 487, 455, 404, 338, 258, 167, 71>>
\* 0.3*sin(0.8 t) in 0.001 mm/s
PumpVibrationTable == <<0, 215, 300, 203, -18, -227, -299, -189, 35, 238, 297, 175, -52, -248, -294, -161>>
\* 0.2*sin(1.2 t) in 0.001 mm/s
TurbineVibrationTable == <<0, 186, 135, -89, -199, -56, 159, 171, -35, -196, -107, 118, 193, 22, -178, -150>>
\* -50*sin(0.05 t) in 0.1 pCi/L
PurificationCycleTable == <<0, -25, -50, -75, -99, -124, -148, -171, -195, -217, -240, -261, -282, -303, -322, -341>>

Term(table, t) == table[(t % 16) + 1]

\* ------------------------------------------------------------ physics engine
\* noise is the value np.random.normal returned for the call
generate_neutron_flux(profile, t, anomaly_factor, noise) ==
    LET base_flux == profile.base_neutron_flux
        \* base_flux * rod_influence, exact for the profiles of the engine
        rod_flux == (base_flux * (100 - profile.control_rod_position)) \div 100
        flux == (((rod_flux * (10000 + Term(TimeVariationTable, t) + noise)) \div 100)
                 * anomaly_factor) \div 10000
        max_flux == (profile.base_neutron_flux * 13) \div 10
    IN  Max(0, Min(flux, max_flux))

generate_core_temperature(profile, neutron_flux, t, anomaly_factor, noise) ==
    LET base_temp_rise == (2500 * neutron_flux) \div profile.base_neutron_flux
        coolant_temp == 26000 + Term(CoolantSeasonalTable, t)
        core_temp == ((coolant_temp + base_temp_rise + Term(ThermalLagTable, t) + noise)
                      * anomaly_factor) \div 100
    IN  Max(20000, Min(core_temp, 40000))

\* variant: the pressure is returned as computed, without the clamp
generate_pressure_unclamped(profile, temperature, t, anomaly_factor, noise) ==
    LET pressure_rise == (profile.base_pressure * (temperature - profile.base_temperature))
                         \div (10 * profile.base_temperature)
    IN  ((profile.base_pressure + pressure_rise + Term(PumpCycleTable, t) + noise)
         * anomaly_factor) \div 100

generate_pressure(profile, temperature, t, anomaly_factor, noise) ==
    LET pressure_rise == (profile.base_pressure * (temperature - profile.base_temperature))
                         \div (10 * profile.base_temperature)
        pressure == ((profile.base_pressure + pressure_rise + Term(PumpCycleTable, t) + noise)
                     * anomaly_factor) \div 100
    IN  Max(8000, Min(pressure, 18000))

generate_vibration(profile, t, anomaly_factor, noise) ==
    LET base_vibration == 1800 + (300 * profile.thermal_power) \div 3100
        vibration == ((base_vibration + Term(PumpVibrationTable, t)
                       + Term(TurbineVibrationTable, t) + noise) * anomaly_factor) \div 100
    IN  Max(0, Min(vibration, 15000))

generate_tritium_level(profile, neutron_flux, t, anomaly_factor, noise) ==
    LET base_tritium == (4500 * neutron_flux) \div profile.base_neutron_flux
        tritium == ((base_tritium + Term(PurificationCycleTable, t) + noise)
                    * anomaly_factor) \div 100
    IN  Max(0, Min(tritium, 20000))

\* dict.get(key, 1.0) on the dict handed to the engine as `anomalies`
AnomalyGet(anomalies, metric) ==
    IF metric \in DOMAIN anomalies THEN anomalies[metric] ELSE 100

generate_telemetry_reading(reactor_id, reactor_type, ts, t, anomalies, noise) ==
    LET profile == ProfileOf(reactor_type)
        neutron_flux == generate_neutron_flux(profile, t,
                            AnomalyGet(anomalies, "neutron_flux"), noise.neutron_flux)
        core_temperature == generate_core_temperature(profile, neutron_flux, t,
                            AnomalyGet(anomalies, "core_temperature"), noise.core_temperature)
        pressure == generate_pressure(profile, core_temperature, t,
                            AnomalyGet(anomalies, "pressure"), noise.pressure)
        vibration == generate_vibration(profile, t,
                            AnomalyGet(anomalies, "vibration"), noise.vibration)
        tritium_level == generate_tritium_level(profile, neutron_flux, t,
                            AnomalyGet(anomalies, "tritium_level"), noise.tritium_level)
    IN  [reactor_id |-> reactor_id, timestamp |-> ts,
         neutron_flux |-> neutron_flux, core_temperature |-> core_temperature,
         pressure |-> pressure, vibration |-> vibration,
         tritium_level |-> tritium_level]

\* ------------------------------------------------------------- health score
normal_ranges ==
    [neutron_flux     |-> [min_val |-> 10000, max_val |-> 15000, weight |-> 25],
     core_temperature |-> [min_val |-> 26000, max_val |-> 32000, weight |-> 30],
     pressure         |-> [min_val |-> 10000, max_val |-> 15000, weight |-> 20],
     vibration        |-> [min_val |-> 0,     max_val |-> 5000,  weight |-> 15],
     tritium_level    |-> [min_val |-> 0,     max_val |-> 10000, weight |-> 10]]

\* result of a call that raised ZeroDivisionError
ZeroDivisionError == -1

\* the score of one metric; the deviation below the range divides by min_val,
\* which is 0 for vibration and tritium_level
MetricScore(metric, value) ==
    LET r == normal_ranges[metric]
    IN  IF r.min_val <= value /\ value <= r.max_val
        THEN 10000
        ELSE IF value < r.min_val
             THEN IF r.min_val = 0
                  THEN ZeroDivisionError
                  ELSE Max(0, 10000 - ((r.min_val - value) * 10000) \div r.min_val)
             ELSE Max(0, 10000 - ((value - r.max_val) * 10000) \div r.max_val)

\* sum of f over the five metrics
SumOverMetrics(f) ==
    f["neutron_flux"] + f["core_temperature"] + f["pressure"] + f["vibration"]
    + f["tritium_level"]

\* telemetry: a dict that may lack metrics (telemetry.get(metric) is None)
calculate_health_score(telemetry) ==
    LET present == Metrics \cap DOMAIN telemetry
        metric_score == [m \in Metrics |->
                            IF m \in present THEN MetricScore(m, telemetry[m]) ELSE 0]
        total_score == SumOverMetrics([m \in Metrics |->
                            metric_score[m] * normal_ranges[m].weight])
        total_weight == SumOverMetrics([m \in Metrics |->
                            IF m \in present THEN normal_ranges[m].weight ELSE 0])
    IN  IF \E m \in present : metric_score[m] = ZeroDivisionError
        THEN ZeroDivisionError
        ELSE IF total_weight > 0 THEN total_score \div total_weight ELSE 10000

NoFault == "none"

\* reading.get(metric, 0)
ReadingGet(reading, metric) ==
    IF metric \in DOMAIN reading THEN reading[metric] ELSE 0

\* variant: the vibration threshold is tested first
determine_fault_type_vibration_first(reading) ==
    IF ReadingGet(reading, "vibration") > 5000 THEN "vibration_high"
    ELSE IF ReadingGet(reading, "core_temperature") > 32000 THEN "temperature_spike"
    ELSE IF ReadingGet(reading, "pressure") < 10000 THEN "pressure_drop"
    ELSE IF ReadingGet(reading, "neutron_flux") > 15000 THEN "flux_instability"
    ELSE IF ReadingGet(reading, "tritium_level") > 10000 THEN "tritium_high"
    ELSE NoFault

determine_fault_type(reading) ==
    IF ReadingGet(reading, "core_temperature") > 32000 THEN "temperature_spike"
    ELSE IF ReadingGet(reading, "pressure") < 10000 THEN "pressure_drop"
    ELSE IF ReadingGet(reading, "vibration") > 5000 THEN "vibration_high"
    ELSE IF ReadingGet(reading, "neutron_flux") > 15000 THEN "flux_instability"
    ELSE IF ReadingGet(reading, "tritium_level") > 10000 THEN "tritium_high"
    ELSE NoFault

\* ---------------------------------------------------------- anomaly catalog
temperature_spike(severity) ==
    IF severity = "red" THEN ("core_temperature" :> 115) ELSE ("core_temperature" :> 108)

pressure_drop(severity) ==
    IF severity = "red" THEN ("pressure" :> 75) ELSE ("pressure" :> 85)

vibration_increase(severity) ==
    IF severity = "red" THEN ("vibration" :> 250) ELSE ("vibration" :> 180)

flux_instability(severity) ==
    IF severity = "red" THEN ("neutron_flux" :> 125) ELSE ("neutron_flux" :> 112)

coolant_leak(severity) ==
    IF severity = "red"
    THEN ("pressure" :> 70) @@ ("core_temperature" :> 112) @@ ("vibration" :> 160)
    ELSE ("pressure" :> 80) @@ ("core_temperature" :> 106) @@ ("vibration" :> 130)

pump_failure(severity) ==
    IF severity = "red"
    THEN ("pressure" :> 65) @@ ("vibration" :> 300)
    ELSE ("pressure" :> 85) @@ ("vibration" :> 220)

get_anomaly_types ==
    {"temperature_spike", "pressure_drop", "vibration_increase",
     "flux_instability", "coolant_leak", "pump_failure"}

\* defined for the catalog names only; any other name raises ValueError
generate_anomaly(anomaly_type, severity) ==
    CASE anomaly_type = "temperature_spike"  -> temperature_spike(severity)
      [] anomaly_type = "pressure_drop"      -> pressure_drop(severity)
      [] anomaly_type = "vibration_increase" -> vibration_increase(severity)
      [] anomaly_type = "flux_instability"   -> flux_instability(severity)
      [] anomaly_type = "coolant_leak"       -> coolant_leak(severity)
      [] anomaly_type = "pump_failure"       -> pump_failure(severity)

\* ------------------------------------------------------------------ inputs
\* rows of the reactors table that get_reactors returns (ORDER BY id)
Registry == <<[id |-> 1, type |-> "CANDU"], [id |-> 2, type |-> "SMR"]>>
ReactorIds == {Registry[i].id : i \in 1..Len(Registry)}

\* values drawn by np.random.normal for the five metrics of one reading
Quiet == [neutron_flux |-> 0, core_temperature |-> 0, pressure |-> 0,
          vibration |-> 0, tritium_level |-> 0]
Rough == [neutron_flux |-> -300, core_temperature |-> 0, pressure |-> -2600,
          vibration |-> 0, tritium_level |-> 0]
NoiseCases == {Quiet, Rough}

\* anomaly_type arguments of inject calls: the catalog and one unknown name
InjectTypes == get_anomaly_types \cup {"meltdown"}
Severities == {"yellow", "red"}
Durations == 1..MaxDuration

EmptyDict == <<>>

\* What the environment does in one run: each run draws one allowance of
\* admin calls, failing items, strongly disturbed readings, slow calls and
\* calls that a sink never answers.
Budgets ==
    {[admin |-> MaxAdminCalls, fail |-> 0, rough |-> 0, slow |-> 0, stall |-> 0],
     [admin |-> 0, fail |-> MaxFailures, rough |-> 0, slow |-> 0, stall |-> 0],
     [admin |-> 1, fail |-> 0, rough |-> MaxRough, slow |-> MaxSlow, stall |-> 0],
     [admin |-> 0, fail |-> 1, rough |-> 1, slow |-> 0, stall |-> 0],
     [admin |-> 1, fail |-> 0, rough |-> 1, slow |-> 0, stall |-> MaxStall]}

\* ------------------------------------------------------------------- state
VARIABLES
    pc,                \* position of the run() coroutine
    exc,               \* run() is unwinding with an exception
    is_running,        \* ReactorDataGenerator.is_running
    reactors,          \* ReactorDataGenerator.reactors
    generation_stats,  \* ReactorDataGenerator.generation_stats
    time_step,         \* TelemetryGenerator.time_step
    active_anomalies,  \* TelemetryGenerator.active_anomalies: reactor_id -> entry
    readings,          \* readings of the cycle in progress
    idx,               \* position of the per-reactor / per-reading loops
    timestamp,         \* timestamp of the cycle in progress
    cycle_start,       \* time.time() at the start of the cycle
    now,               \* the clock (datetime.utcnow, time.time, NOW())
    telemetry_topic,   \* messages delivered to <prefix>.telemetry
    alerts_topic,      \* messages delivered to <prefix>.alerts
    telemetry_rows,    \* rows of the telemetry table
    reactor_health,    \* health_score, status columns of the reactors table
    faults,            \* rows of the faults table
    fault_data,        \* fault dict handed to create_fault
    released,          \* per sink: "open", "closed" or "close_failed"
    \* history variables
    gen_trace,         \* per generate_reading call of the cycle: inputs and result
    cyc,               \* accounting of the cycle in progress
    fault_step,        \* what happened to the last detected fault
    hist,              \* stop requests and cycles started after them
    inject_log,        \* the last inject call and what it found
    budget,            \* what the environment may still do in this run
    expired,           \* update_anomalies: the reactor ids it selected
    probe,             \* a direct call of an engine function and its result
    clear_log,         \* history: the last clear call and what it found
    active_connections, \* ConnectionManager.active_connections (backend)
    broadcast          \* the broadcast_to_all call in progress (backend)

vars == <<pc, exc, is_running, reactors, generation_stats, time_step,
          active_anomalies, readings, idx, timestamp, cycle_start, now,
          telemetry_topic, alerts_topic, telemetry_rows, reactor_health,
          faults, fault_data, released, gen_trace, cyc, fault_step, hist,
          inject_log, budget, expired, probe, clear_log, active_connections,
          broadcast>>

runVars == <<pc, exc, is_running, reactors, generation_stats, time_step,
             active_anomalies, readings, idx, timestamp, cycle_start, now,
             telemetry_topic, alerts_topic, telemetry_rows, reactor_health,
             faults, fault_data, released, gen_trace, cyc, fault_step, hist,
             inject_log, budget, expired, clear_log>>
backendVars == <<active_connections, broadcast>>
sinkVars == <<telemetry_topic, alerts_topic, telemetry_rows, reactor_health, faults>>
cycleVars == <<readings, idx, timestamp, cycle_start, fault_data>>
ghostVars == <<gen_trace, cyc, fault_step, hist, inject_log>>

NoTime == -1
NoFaultData == [reactor_id |-> 0, fault_type |-> NoFault, severity |-> "none", timestamp |-> NoTime]

NoInject == [call |-> 0, reactor_id |-> 0, anomaly_type |-> "none", severity |-> "none",
             duration |-> 0, at |-> NoTime, prior |-> EmptyDict, accepted |-> FALSE]

NoProbe == [op |-> "none"]

NoClear == [call |-> 0, reactor_id |-> 0, at |-> NoTime, prior |-> EmptyDict,
            pending |-> FALSE]

\* broadcast_to_all is not running. i: the position of the list iterator of
\* the for loop; connection: the loop variable; attempted, stayed: history,
\* the connections send_text was called on and the connections that have
\* been in active_connections since the call began
NoBroadcast == [state |-> "idle", i |-> 0, connection |-> 0, disconnected |-> <<>>,
                attempted |-> {}, stayed |-> {}]

CycleInit(stats) ==
    [stats0 |-> stats, gen_failed |-> {}, publish_failed |-> 0,
     persist_failed |-> 0, rows_written |-> 0, phases |-> {}, stop_seen |-> FALSE,
     timeouts |-> {}]

Init ==
    /\ pc = "idle"
    /\ exc = FALSE
    /\ is_running = FALSE
    /\ reactors = <<>>
    /\ generation_stats = [total_readings |-> 0, successful_kafka |-> 0,
                           successful_db |-> 0, errors |-> 0, start_time |-> NoTime]
    /\ time_step = 0
    /\ active_anomalies = EmptyDict
    /\ readings = <<>>
    /\ idx = 1
    /\ timestamp = NoTime
    /\ cycle_start = NoTime
    /\ now = 0
    /\ telemetry_topic = 0
    /\ alerts_topic = <<>>
    /\ telemetry_rows = 0
    /\ reactor_health = [r \in ReactorIds |-> [health_score |-> 10000, status |-> "healthy"]]
    /\ faults = {}
    /\ fault_data = NoFaultData
    /\ released = [kafka |-> "open", db |-> "open"]
    /\ gen_trace = <<>>
    /\ cyc = CycleInit(generation_stats)
    /\ fault_step = [alerted |-> FALSE, outcome |-> "none"]
    /\ hist = [stop_requested |-> FALSE, cycles |-> 0, cycles_after_stop |-> 0,
               startup_failed |-> FALSE]
    /\ inject_log = NoInject
    /\ budget \in Budgets
    /\ expired = {}
    /\ probe = NoProbe
    /\ clear_log = NoClear
    /\ active_connections = <<>>
    /\ broadcast = NoBroadcast

\* ------------------------------------------------------------ anomaly tracker
\* self.active_anomalies.get(reactor_id, {})
ActiveGet(anoms, reactor_id) ==
    IF reactor_id \in DOMAIN anoms THEN anoms[reactor_id] ELSE EmptyDict

\* self.active_anomalies.pop(reactor_id, None)
Pop(anoms, reactor_id) == [k \in DOMAIN anoms \ {reactor_id} |-> anoms[k]]

\* variant: the new factors are merged into the factors of the entry in place
inject_anomaly_stacking(anoms, reactor_id, anomaly_type, severity, duration, t) ==
    (reactor_id :> [factors |-> generate_anomaly(anomaly_type, severity)
                                @@ (IF reactor_id \in DOMAIN anoms
                                    THEN anoms[reactor_id].factors ELSE EmptyDict),
                    expires_at |-> t + duration,
                    type |-> anomaly_type,
                    severity |-> severity]) @@ anoms

\* self.active_anomalies[reactor_id] = {...}
inject_anomaly(anoms, reactor_id, anomaly_type, severity, duration, t) ==
    (reactor_id :> [factors |-> generate_anomaly(anomaly_type, severity),
                    expires_at |-> t + duration,
                    type |-> anomaly_type,
                    severity |-> severity]) @@ anoms

\* variant: the whole tracker is emptied
clear_anomaly_all(anoms, reactor_id) == EmptyDict

clear_anomaly(anoms, reactor_id) == Pop(anoms, reactor_id)

\* the list comprehension of update_anomalies
Expired(anoms, t) == {r \in DOMAIN anoms : anoms[r].expires_at < t}

\* the pops of update_anomalies over the selected ids, all of them present
PopAll(anoms, ids) == [k \in DOMAIN anoms \ ids |-> anoms[k]]

\* update_anomalies() as one uninterrupted call
update_anomalies(anoms, t) == PopAll(anoms, Expired(anoms, t))

\* ------------------------------------------------------------------ run()
\* run() is a coroutine: other coroutines (the admin calls) run only while it
\* is suspended in an await that yields to the event loop.
\* variant: the scheduler runs in a thread of its own and the admin calls
\* can run between any two of its statements
SuspensionPointsPreemptive == {"load_reactors", "db_health", "persist", "update_health",
                               "create_fault", "sleep", "db_close", "sweep_remove",
                               "persist_stalled"}

\* the awaits of run() that suspend it
SuspensionPoints == {"load_reactors", "db_health", "persist", "update_health",
                     "create_fault", "sleep", "db_close", "persist_stalled"}
AdminPoints == SuspensionPoints \cup {"idle", "returned", "raised"}
CyclePhases == {"generate", "publish", "publish_stalled", "persist", "persist_stalled",
                "update_health", "check_faults", "create_fault", "sweep", "sweep_remove"}

\* run() is called: initialize() starts and awaits load_reactors()
RunCalled ==
    /\ UNCHANGED <<probe, expired, backendVars, clear_log>>
    /\ pc = "idle"
    /\ pc' = "load_reactors"
    /\ UNCHANGED <<exc, is_running, reactors, generation_stats, time_step,
                   active_anomalies, now, released, budget>>
    /\ UNCHANGED <<sinkVars, cycleVars, ghostVars>>

\* load_reactors(): get_reactors() returns the registry or raises
LoadReactors ==
    /\ UNCHANGED <<probe, expired, backendVars, clear_log>>
    /\ pc = "load_reactors"
    /\ \E ok \in BOOLEAN :
        IF ok
        THEN /\ reactors' = Registry
             /\ pc' = "kafka_health"
             /\ exc' = exc
        ELSE /\ reactors' = reactors
             /\ pc' = "cleanup"
             /\ exc' = TRUE
    /\ hist' = [hist EXCEPT !.startup_failed = exc']
    /\ UNCHANGED <<is_running, generation_stats, time_step, active_anomalies,
                   now, released, budget>>
    /\ UNCHANGED <<sinkVars, cycleVars, gen_trace, cyc, fault_step, inject_log>>

\* variant: the result of the bus health check is logged and not acted on
AfterKafkaHealthIgnored(healthy) == "db_health"

\* initialize() after kafka_producer.health_check(): an unhealthy bus raises
AfterKafkaHealth(healthy) == IF healthy THEN "db_health" ELSE "cleanup"

\* kafka_producer.health_check(), synchronous
KafkaHealthCheck ==
    /\ UNCHANGED <<probe, expired, backendVars, clear_log>>
    /\ pc = "kafka_health"
    /\ \E healthy \in BOOLEAN :
        /\ pc' = AfterKafkaHealth(healthy)
        /\ exc' = ~healthy
    /\ hist' = [hist EXCEPT !.startup_failed = exc']
    /\ UNCHANGED <<is_running, reactors, generation_stats, time_step,
                   active_anomalies, now, released, budget>>
    /\ UNCHANGED <<sinkVars, cycleVars, gen_trace, cyc, fault_step, inject_log>>

\* database_client.health_check() returns; on success initialize() returns and
\* run() sets is_running and start_time before the first loop test
DbHealthCheck ==
    /\ UNCHANGED <<probe, expired, backendVars, clear_log>>
    /\ pc = "db_health"
    /\ \E healthy \in BOOLEAN :
        IF healthy
        THEN /\ is_running' = TRUE
             /\ generation_stats' = [generation_stats EXCEPT !.start_time = now]
             /\ pc' = "loop_check"
             /\ exc' = exc
        ELSE /\ pc' = "cleanup"
             /\ exc' = TRUE
             /\ UNCHANGED <<is_running, generation_stats>>
    /\ hist' = [hist EXCEPT !.startup_failed = exc']
    /\ UNCHANGED <<reactors, time_step, active_anomalies, now, released, budget>>
    /\ UNCHANGED <<sinkVars, cycleVars, gen_trace, cyc, fault_step, inject_log>>

\* variant: the cycle publishes the (still empty) batch before generating
CycleEntryPublishFirst == "publish"

\* generate_telemetry_cycle begins with the for loop over self.reactors
CycleEntry == "generate"

\* while self.is_running: start a cycle, or leave the loop
LoopCheck ==
    /\ UNCHANGED <<probe, expired, backendVars, clear_log>>
    /\ pc = "loop_check"
    /\ IF is_running
       THEN /\ hist.cycles < MaxCycles
            /\ cycle_start' = now
            /\ timestamp' = now
            /\ readings' = <<>>
            /\ idx' = 1
            /\ pc' = CycleEntry
            /\ gen_trace' = <<>>
            /\ cyc' = CycleInit(generation_stats)
            /\ hist' = [hist EXCEPT !.cycles = @ + 1,
                                    !.cycles_after_stop =
                                        IF hist.stop_requested THEN @ + 1 ELSE @]
       ELSE /\ pc' = "cleanup"
            /\ UNCHANGED <<cycle_start, timestamp, readings, idx, gen_trace, cyc, hist>>
    /\ UNCHANGED <<exc, is_running, reactors, generation_stats, time_step,
                   active_anomalies, now, fault_data, released, fault_step,
                   inject_log, budget, expired, probe, backendVars, clear_log>>
    /\ UNCHANGED sinkVars

\* variant: a failed reading ends the for loop and the cycle
AfterGenerateAborting(i, failed) ==
    IF failed THEN "sweep" ELSE IF i = Len(reactors) THEN "publish" ELSE "generate"

\* where the for loop of generate_telemetry_cycle goes after reactors[i]: the
\* except branch logs and counts, and the loop continues
AfterGenerate(i, failed) == IF i = Len(reactors) THEN "publish" ELSE "generate"

\* variant: the counter restarts with every cycle
NextTimeStepPerCycle(ts, i) == IF i = 1 THEN 1 ELSE ts + 1

\* generate_reading: self.time_step += 1 after the reading is built
NextTimeStep(ts, i) == ts + 1

\* one iteration of the for loop of generate_telemetry_cycle
GenerateReading ==
    /\ UNCHANGED <<probe, expired, backendVars, clear_log>>
    /\ pc = "generate"
    /\ idx <= Len(reactors)
    /\ LET reactor == reactors[idx]
           anomalies == ActiveGet(active_anomalies, reactor.id)
       IN \E failed \in BOOLEAN, noise \in NoiseCases :
          /\ failed => budget.fail > 0 /\ noise = Quiet
          /\ noise = Rough => budget.rough > 0
          /\ budget' = [budget EXCEPT !.fail = IF failed THEN @ - 1 ELSE @,
                                      !.rough = IF noise = Rough THEN @ - 1 ELSE @]
          /\ IF failed
              THEN /\ generation_stats' = [generation_stats EXCEPT !.errors = @ + 1]
                   /\ cyc' = [cyc EXCEPT !.gen_failed = @ \cup {reactor.id}]
                   /\ gen_trace' = Append(gen_trace,
                          [reactor_id |-> reactor.id, reactor_type |-> reactor.type,
                           anomalies |-> anomalies, time_step |-> time_step,
                           noise |-> Quiet, failed |-> TRUE, reading |-> EmptyDict])
                   /\ UNCHANGED <<readings, time_step>>
              ELSE LET reading == generate_telemetry_reading(reactor.id, reactor.type,
                                      timestamp, time_step, anomalies, noise)
                   IN /\ readings' = Append(readings, reading)
                      /\ time_step' = NextTimeStep(time_step, idx)
                      /\ generation_stats' = [generation_stats EXCEPT !.total_readings = @ + 1]
                      /\ gen_trace' = Append(gen_trace,
                          [reactor_id |-> reactor.id, reactor_type |-> reactor.type,
                           anomalies |-> anomalies, time_step |-> time_step,
                           noise |-> noise, failed |-> FALSE, reading |-> reading])
                      /\ cyc' = cyc
    /\ idx' = idx + 1
    /\ pc' = AfterGenerate(idx, generation_stats'.errors # generation_stats.errors)
    /\ UNCHANGED <<exc, is_running, reactors, active_anomalies, timestamp,
                   cycle_start, now, fault_data, released, fault_step, hist,
                   inject_log>>
    /\ UNCHANGED sinkVars

\* variant: the counter holds the count of the last batch
CountPublishedLast(successful_kafka, success_count) == success_count

\* self.generation_stats["successful_kafka"] += success_count
CountPublished(successful_kafka, success_count) == successful_kafka + success_count

\* send_to_kafka(readings): send_batch_telemetry sends each reading, counts
\* the sends that returned True and returns the count
SendToKafka ==
    /\ UNCHANGED <<probe, expired, backendVars, clear_log>>
    /\ pc = "publish"
    /\ \E sent \in SUBSET (1..Len(readings)) :
        LET success_count == Cardinality(sent)
        IN /\ budget.fail >= Len(readings) - success_count
           /\ budget' = [budget EXCEPT !.fail = @ - (Len(readings) - success_count)]
           /\ telemetry_topic' = telemetry_topic + success_count
           /\ generation_stats' = [generation_stats EXCEPT
                                      !.successful_kafka = CountPublished(@, success_count)]
           /\ cyc' = [cyc EXCEPT !.publish_failed = Len(readings) - success_count,
                                 !.phases = @ \cup {"generate", "publish"}]
    /\ pc' = "persist"
    /\ UNCHANGED <<exc, is_running, reactors, time_step, active_anomalies, now,
                   released, gen_trace, fault_step, hist, inject_log>>
    /\ UNCHANGED <<alerts_topic, telemetry_rows, reactor_health, faults, cycleVars>>

\* variant: the wait has no timer and lasts as long as the sink is silent
TimerNever(timeout) == FALSE

\* a wait that was given a timeout ends when the timeout has elapsed
TimerFires(timeout) == timeout > 0

\* send_telemetry: the broker does not confirm a message and future.get waits
PublishStall ==
    /\ UNCHANGED <<probe, expired, backendVars, clear_log>>
    /\ pc = "publish"
    /\ Len(readings) > 0
    /\ budget.stall > 0
    /\ now + SendTimeout <= MaxTime
    /\ budget' = [budget EXCEPT !.stall = @ - 1]
    /\ pc' = "publish_stalled"
    /\ UNCHANGED <<exc, is_running, reactors, generation_stats, time_step,
                   active_anomalies, now, released>>
    /\ UNCHANGED <<sinkVars, cycleVars, ghostVars>>

\* future.get(timeout=10) raises KafkaTimeoutError, send_telemetry returns
\* False for that reading and send_batch_telemetry goes on with the others
PublishTimeout ==
    /\ UNCHANGED <<probe, expired, backendVars, clear_log>>
    /\ pc = "publish_stalled"
    /\ TimerFires(SendTimeout)
    /\ \E stalled \in 1..Len(readings) :
       \E sent \in SUBSET ((1..Len(readings)) \ {stalled}) :
        LET success_count == Cardinality(sent)
            refused == Len(readings) - 1 - success_count
        IN /\ budget.fail >= refused
           /\ budget' = [budget EXCEPT !.fail = @ - refused]
           /\ telemetry_topic' = telemetry_topic + success_count
           /\ generation_stats' = [generation_stats EXCEPT
                                      !.successful_kafka = CountPublished(@, success_count)]
           /\ cyc' = [cyc EXCEPT !.publish_failed = Len(readings) - success_count,
                                 !.phases = @ \cup {"generate", "publish"},
                                 !.timeouts = @ \cup {"publish"}]
    /\ now' = now + SendTimeout
    /\ pc' = "persist"
    /\ UNCHANGED <<exc, is_running, reactors, time_step, active_anomalies,
                   released, gen_trace, fault_step, hist, inject_log>>
    /\ UNCHANGED <<alerts_topic, telemetry_rows, reactor_health, faults, cycleVars>>

\* insert_telemetry_batch: the store does not answer the executemany
PersistStall ==
    /\ UNCHANGED <<probe, expired, backendVars, clear_log>>
    /\ pc = "persist"
    /\ Len(readings) > 0
    /\ budget.stall > 0
    /\ now + CommandTimeout <= MaxTime
    /\ budget' = [budget EXCEPT !.stall = @ - 1]
    /\ pc' = "persist_stalled"
    /\ UNCHANGED <<exc, is_running, reactors, generation_stats, time_step,
                   active_anomalies, now, released>>
    /\ UNCHANGED <<sinkVars, cycleVars, ghostVars>>

\* command_timeout=30 ends the executemany with TimeoutError, which
\* insert_telemetry_batch catches: it returns 0. The rows before the stalled
\* one stay written or none does.
PersistTimeout ==
    /\ UNCHANGED <<probe, expired, backendVars, clear_log>>
    /\ pc = "persist_stalled"
    /\ TimerFires(CommandTimeout)
    /\ \E stalled \in 1..Len(readings), partial \in BOOLEAN :
        LET written == IF partial THEN stalled - 1 ELSE 0
        IN /\ telemetry_rows' = telemetry_rows + written
           /\ cyc' = [cyc EXCEPT !.persist_failed = Len(readings),
                                 !.rows_written = written,
                                 !.phases = @ \cup {"persist"},
                                 !.timeouts = @ \cup {"persist"}]
    /\ generation_stats' = [generation_stats EXCEPT !.successful_db = @ + 0]
    /\ now' = now + CommandTimeout
    /\ idx' = 1
    /\ pc' = "update_health"
    /\ UNCHANGED <<exc, is_running, reactors, time_step, active_anomalies,
                   readings, timestamp, cycle_start, fault_data, released,
                   gen_trace, fault_step, hist, inject_log, budget>>
    /\ UNCHANGED <<telemetry_topic, alerts_topic, reactor_health, faults>>

\* first index of a non-empty set of indices
MinOf(S) == CHOOSE x \in S : \A y \in S : x <= y

\* store_in_database(readings): insert_telemetry_batch runs one executemany
\* over the batch and returns len(values), or 0 when anything raised.
\* rejected: the rows the store refuses; delay: time the call takes;
\* partial: the rows before the first refused one stay written (executemany
\* outside an implicit transaction) or none does.
StoreInDatabase ==
    /\ UNCHANGED <<probe, expired, backendVars, clear_log>>
    /\ pc = "persist"
    /\ \E rejected \in SUBSET (1..Len(readings)), delay \in {0, SlowSink}, partial \in BOOLEAN :
        LET success_count == IF rejected = {} THEN Len(readings) ELSE 0
            written == IF rejected = {} THEN Len(readings)
                       ELSE IF partial THEN MinOf(rejected) - 1 ELSE 0
        IN /\ budget.fail >= Cardinality(rejected)
           /\ delay > 0 => budget.slow > 0
           /\ partial => rejected # {}
           /\ budget' = [budget EXCEPT !.fail = @ - Cardinality(rejected),
                                       !.slow = IF delay > 0 THEN @ - 1 ELSE @]
           /\ now + delay <= MaxTime
           /\ now' = now + delay
           /\ telemetry_rows' = telemetry_rows + written
           /\ generation_stats' = [generation_stats EXCEPT !.successful_db = @ + success_count]
           /\ cyc' = [cyc EXCEPT !.persist_failed = Cardinality(rejected),
                                 !.rows_written = written,
                                 !.phases = IF Len(readings) = 0
                                            THEN @ \cup {"persist", "health"}
                                            ELSE @ \cup {"persist"}]
    /\ idx' = 1
    /\ pc' = IF Len(readings) = 0 THEN "sweep" ELSE "update_health"
    /\ UNCHANGED <<exc, is_running, reactors, time_step, active_anomalies,
                   readings, timestamp, cycle_start, fault_data, released,
                   gen_trace, fault_step, hist, inject_log>>
    /\ UNCHANGED <<telemetry_topic, alerts_topic, reactor_health, faults>>

\* variant: a score of exactly 90 or 70 falls into the lower status
StatusForStrict(health_score) ==
    IF health_score > 9000 THEN "healthy"
    ELSE IF health_score > 7000 THEN "warning"
    ELSE "unhealthy"

\* status assigned by update_reactor_health
StatusFor(health_score) ==
    IF health_score >= 9000 THEN "healthy"
    ELSE IF health_score >= 7000 THEN "warning"
    ELSE "unhealthy"

\* update_health_scores: score readings[idx] and await update_reactor_health,
\* whose UPDATE succeeds or raises (caught inside update_reactor_health)
UpdateReactorHealth ==
    /\ UNCHANGED <<probe, expired, backendVars, clear_log>>
    /\ pc = "update_health"
    /\ LET reading == readings[idx]
           health_score == calculate_health_score(reading)
       IN \E ok \in BOOLEAN :
            /\ ~ok => budget.fail > 0
            /\ budget' = [budget EXCEPT !.fail = IF ok THEN @ ELSE @ - 1]
            /\ reactor_health' =
                IF ok THEN [reactor_health EXCEPT ![reading.reactor_id] =
                               [health_score |-> health_score, status |-> StatusFor(health_score)]]
                ELSE reactor_health
    /\ pc' = "check_faults"
    /\ UNCHANGED <<exc, is_running, reactors, generation_stats, time_step,
                   active_anomalies, now, released>>
    /\ UNCHANGED <<telemetry_topic, alerts_topic, telemetry_rows, faults, cycleVars, ghostVars>>

\* variant: the loop over the readings tests is_running and leaves the cycle
AfterReadingIfRunning(i) ==
    IF ~is_running THEN "cleanup"
    ELSE IF i = Len(readings) THEN "sweep" ELSE "update_health"

\* position after the fault handling of readings[idx]
AfterReading(i) == IF i = Len(readings) THEN "sweep" ELSE "update_health"
PhasesAfterReading(i, phases) == IF i = Len(readings) THEN phases \cup {"health"} ELSE phases

\* severity assigned by check_for_faults; "none" for a score that raises no fault
SeverityFor(health_score) ==
    IF health_score < 9000
    THEN IF health_score < 7000 THEN "red" ELSE "yellow"
    ELSE "none"

\* variant: the fault type alone decides, whatever the score
DetectFaultAnyScore(reading, health_score) ==
    IF determine_fault_type(reading) # NoFault
    THEN [reactor_id |-> reading.reactor_id,
          fault_type |-> determine_fault_type(reading),
          severity |-> IF health_score < 7000 THEN "red" ELSE "yellow",
          timestamp |-> reading.timestamp]
    ELSE NoFaultData

\* the fault dict check_for_faults builds for a reading, NoFaultData when it
\* builds none
DetectFault(reading, health_score) ==
    IF health_score < 9000 /\ determine_fault_type(reading) # NoFault
    THEN [reactor_id |-> reading.reactor_id,
          fault_type |-> determine_fault_type(reading),
          severity |-> SeverityFor(health_score),
          timestamp |-> reading.timestamp]
    ELSE NoFaultData

\* check_for_faults up to the await of create_fault: severity, fault type,
\* the fault dict and send_alert (which returns False when the send fails)
CheckForFaults ==
    /\ UNCHANGED <<probe, expired, backendVars, clear_log>>
    /\ pc = "check_faults"
    /\ LET reading == readings[idx]
           health_score == calculate_health_score(reading)
           detected == DetectFault(reading, health_score)
       IN IF detected # NoFaultData
          THEN /\ fault_data' = detected
               /\ \E sent \in BOOLEAN :
                    /\ ~sent => budget.fail > 0
                    /\ budget' = [budget EXCEPT !.fail = IF sent THEN @ ELSE @ - 1]
                    /\ alerts_topic' = IF sent THEN Append(alerts_topic, fault_data')
                                       ELSE alerts_topic
                    /\ fault_step' = [alerted |-> sent, outcome |-> "pending"]
               /\ pc' = "create_fault"
               /\ UNCHANGED <<idx, cyc>>
          ELSE /\ pc' = AfterReading(idx)
               /\ idx' = idx + 1
               /\ cyc' = [cyc EXCEPT !.phases = PhasesAfterReading(idx, @)]
               /\ UNCHANGED <<fault_data, alerts_topic, fault_step, budget>>
    /\ UNCHANGED <<exc, is_running, reactors, generation_stats, time_step,
                   active_anomalies, readings, timestamp, cycle_start, now,
                   released, gen_trace, hist, inject_log>>
    /\ UNCHANGED <<telemetry_topic, telemetry_rows, reactor_health, faults>>

\* variant: the SELECT without the age condition
SimilarFaultExistsAnyAge(table, data, t) ==
    \E f \in table :
        /\ f.reactor_id = data.reactor_id
        /\ f.fault_type = data.fault_type
        /\ f.resolved = FALSE

\* variant: the SELECT without the resolved condition
SimilarFaultExistsAnyState(table, data, t) ==
    \E f \in table :
        /\ f.reactor_id = data.reactor_id
        /\ f.fault_type = data.fault_type
        /\ f.timestamp > t - DedupeWindow

\* the SELECT of create_fault: an unresolved fault of the same reactor and
\* type whose timestamp is later than NOW() - INTERVAL '1 hour'
SimilarFaultExists(table, data, t) ==
    \E f \in table :
        /\ f.reactor_id = data.reactor_id
        /\ f.fault_type = data.fault_type
        /\ f.resolved = FALSE
        /\ f.timestamp > t - DedupeWindow

\* the INSERT of create_fault
InsertFault(table, data) ==
    table \cup {[id |-> Cardinality(table) + 1,
                 reactor_id |-> data.reactor_id,
                 fault_type |-> data.fault_type,
                 severity |-> data.severity,
                 timestamp |-> data.timestamp,
                 resolved |-> FALSE]}

\* create_fault(fault_data): skip when a similar fault exists, else insert;
\* a store error is caught and logged
CreateFault ==
    /\ UNCHANGED <<probe, expired, backendVars, clear_log>>
    /\ pc = "create_fault"
    /\ \E ok \in BOOLEAN :
        /\ ~ok => budget.fail > 0
        /\ budget' = [budget EXCEPT !.fail = IF ok THEN @ ELSE @ - 1]
        /\ IF ~ok
           THEN /\ faults' = faults
                /\ fault_step' = [fault_step EXCEPT !.outcome = "db_error"]
           ELSE IF SimilarFaultExists(faults, fault_data, now)
                THEN /\ faults' = faults
                     /\ fault_step' = [fault_step EXCEPT !.outcome = "suppressed"]
                ELSE /\ faults' = InsertFault(faults, fault_data)
                     /\ fault_step' = [fault_step EXCEPT !.outcome = "written"]
    /\ pc' = AfterReading(idx)
    /\ idx' = idx + 1
    /\ cyc' = [cyc EXCEPT !.phases = PhasesAfterReading(idx, @)]
    /\ UNCHANGED <<exc, is_running, reactors, generation_stats, time_step,
                   active_anomalies, readings, timestamp, cycle_start, now,
                   fault_data, released, gen_trace, hist, inject_log>>
    /\ UNCHANGED <<telemetry_topic, alerts_topic, telemetry_rows, reactor_health>>

\* after generate_telemetry_cycle returns: update_anomalies() selects the
\* expired ids
UpdateAnomalies ==
    /\ pc = "sweep"
    /\ expired' = Expired(active_anomalies, now)
    /\ pc' = "sweep_remove"
    /\ UNCHANGED <<exc, is_running, reactors, generation_stats, time_step, now,
                   active_anomalies, released, budget, probe, backendVars, clear_log>>
    /\ UNCHANGED <<sinkVars, cycleVars, ghostVars>>

\* variant: the scheduler always sleeps the whole interval
SleepTimeFullInterval(interval, cycle_duration) == interval

\* sleep_time = max(0, self.generation_interval - cycle_duration)
SleepTime(interval, cycle_duration) == Max(0, interval - cycle_duration)

\* update_anomalies() pops the selected ids (pop without a default raises
\* KeyError for an id that is gone, after the pops before it); then run()
\* computes the sleep time: asyncio.sleep is awaited only when it is positive
RemoveExpired ==
    /\ pc = "sweep_remove"
    /\ IF expired \subseteq DOMAIN active_anomalies
       THEN /\ active_anomalies' = PopAll(active_anomalies, expired)
            /\ exc' = exc
            /\ LET cycle_duration == now - cycle_start
                   sleep_time == SleepTime(GenerationInterval, cycle_duration)
               IN pc' = IF sleep_time > 0 THEN "sleep" ELSE "loop_check"
       ELSE /\ \E done \in SUBSET (expired \cap DOMAIN active_anomalies) :
                  active_anomalies' = PopAll(active_anomalies, done)
            /\ exc' = TRUE
            /\ pc' = "cleanup"
    /\ expired' = {}
    /\ UNCHANGED <<is_running, reactors, generation_stats, time_step, now,
                   released, budget, probe, backendVars, clear_log>>
    /\ UNCHANGED <<sinkVars, cycleVars, ghostVars>>

\* asyncio.sleep(sleep_time) returns, or the task running run() is cancelled
\* while it sleeps: CancelledError leaves the loop through the finally clause
Sleep ==
    /\ UNCHANGED <<probe, expired, backendVars, clear_log>>
    /\ pc = "sleep"
    /\ \E cancelled \in BOOLEAN :
        IF cancelled
        THEN /\ budget.fail > 0
             /\ budget' = [budget EXCEPT !.fail = @ - 1]
             /\ now' = now
             /\ exc' = TRUE
             /\ pc' = "cleanup"
        ELSE /\ LET sleep_time == SleepTime(GenerationInterval, now - cycle_start)
                IN /\ now + sleep_time <= MaxTime
                   /\ now' = now + sleep_time
             /\ budget' = budget
             /\ exc' = exc
             /\ pc' = "loop_check"
    /\ UNCHANGED <<is_running, reactors, generation_stats, time_step,
                   active_anomalies, released>>
    /\ UNCHANGED <<sinkVars, cycleVars, ghostVars>>

\* how run() ends after cleanup(): the exception in flight is re-raised
RunExit == IF exc THEN "raised" ELSE "returned"

\* variant: an error of the producer's close() leaves cleanup() through its
\* except branch, before the store client is closed
AfterKafkaCloseRaising(ok) == IF ok THEN "db_close" ELSE RunExit

\* where cleanup() goes after kafka_producer.close(): close() catches and
\* logs its own errors, so the store client is closed next in either case
AfterKafkaClose(ok) == "db_close"

\* cleanup(): kafka_producer.close() flushes and closes the producer, or
\* fails in between and logs
Cleanup ==
    /\ UNCHANGED <<probe, expired, backendVars, clear_log>>
    /\ pc = "cleanup"
    /\ \E ok \in BOOLEAN :
        /\ ~ok => budget.fail > 0
        /\ budget' = [budget EXCEPT !.fail = IF ok THEN @ ELSE @ - 1]
        /\ released' = [released EXCEPT !.kafka = IF ok THEN "closed" ELSE "close_failed"]
        /\ pc' = AfterKafkaClose(ok)
    /\ UNCHANGED <<exc, is_running, reactors, generation_stats, time_step,
                   active_anomalies, now>>
    /\ UNCHANGED <<sinkVars, cycleVars, ghostVars>>

\* database_client.close() closes the pool, or fails and logs; cleanup()
\* returns and run() returns or re-raises
DbClose ==
    /\ UNCHANGED <<probe, expired, backendVars, clear_log>>
    /\ pc = "db_close"
    /\ \E ok \in BOOLEAN :
        /\ ~ok => budget.fail > 0
        /\ budget' = [budget EXCEPT !.fail = IF ok THEN @ ELSE @ - 1]
        /\ released' = [released EXCEPT !.db = IF ok THEN "closed" ELSE "close_failed"]
    /\ pc' = RunExit
    /\ UNCHANGED <<exc, is_running, reactors, generation_stats, time_step,
                   active_anomalies, now>>
    /\ UNCHANGED <<sinkVars, cycleVars, ghostVars>>

\* ------------------------------------------------------- admin surface
AdminCall ==
    /\ pc \in AdminPoints
    /\ budget.admin > 0
    /\ budget' = [budget EXCEPT !.admin = @ - 1]

\* variant: the entry is stored first and its factors are looked up afterwards
InjectOutcomeStoringFirst(anoms, reactor_id, anomaly_type, severity, duration, t) ==
    IF anomaly_type \in get_anomaly_types
    THEN inject_anomaly(anoms, reactor_id, anomaly_type, severity, duration, t)
    ELSE (reactor_id :> [factors |-> EmptyDict, expires_at |-> t + duration,
                         type |-> anomaly_type, severity |-> severity]) @@ anoms

\* the tracker after TelemetryGenerator.inject_anomaly: generate_anomaly raises
\* ValueError for an unknown type before anything is stored
InjectOutcome(anoms, reactor_id, anomaly_type, severity, duration, t) ==
    IF anomaly_type \in get_anomaly_types
    THEN inject_anomaly(anoms, reactor_id, anomaly_type, severity, duration, t)
    ELSE anoms

\* ReactorDataGenerator.inject_anomaly: the wrapper catches the ValueError of
\* an unknown type and returns False
InjectAnomaly ==
    /\ UNCHANGED <<probe, expired, backendVars>>
    /\ AdminCall
    /\ \E reactor_id \in ReactorIds, anomaly_type \in InjectTypes,
          severity \in Severities, duration \in Durations :
        /\ active_anomalies' = InjectOutcome(active_anomalies, reactor_id,
                                             anomaly_type, severity, duration, now)
        /\ inject_log' = [call |-> inject_log.call + 1, reactor_id |-> reactor_id,
                          anomaly_type |-> anomaly_type, severity |-> severity,
                          duration |-> duration, at |-> now,
                          prior |-> ActiveGet(active_anomalies, reactor_id),
                          accepted |-> anomaly_type \in get_anomaly_types]
        /\ clear_log' = IF reactor_id = clear_log.reactor_id
                           /\ anomaly_type \in get_anomaly_types
                        THEN [clear_log EXCEPT !.pending = FALSE]
                        ELSE clear_log
    /\ UNCHANGED <<pc, exc, is_running, reactors, generation_stats, time_step,
                   now, released>>
    /\ UNCHANGED <<sinkVars, cycleVars, gen_trace, cyc, fault_step, hist>>

\* ReactorDataGenerator.clear_anomaly
ClearAnomaly ==
    /\ UNCHANGED <<probe, expired, backendVars>>
    /\ AdminCall
    /\ \E reactor_id \in ReactorIds :
        /\ active_anomalies' = clear_anomaly(active_anomalies, reactor_id)
        /\ clear_log' = [call |-> clear_log.call + 1, reactor_id |-> reactor_id,
                         at |-> now, prior |-> ActiveGet(active_anomalies, reactor_id),
                         pending |-> TRUE]
    /\ UNCHANGED <<pc, exc, is_running, reactors, generation_stats, time_step,
                   now, released>>
    /\ UNCHANGED <<sinkVars, cycleVars, ghostVars>>

\* ReactorDataGenerator.stop
Stop ==
    /\ UNCHANGED <<probe, expired, backendVars, clear_log>>
    /\ AdminCall
    /\ is_running' = FALSE
    /\ hist' = [hist EXCEPT !.stop_requested = @ \/ pc # "idle"]
    /\ cyc' = [cyc EXCEPT !.stop_seen = @ \/ pc \in CyclePhases]
    /\ UNCHANGED <<pc, exc, reactors, generation_stats, time_step,
                   active_anomalies, now, released, gen_trace, fault_step,
                   inject_log>>
    /\ UNCHANGED <<sinkVars, cycleVars>>

\* ReactorDataGenerator.get_statistics: get_active_anomalies() runs
\* update_anomalies() before it reports the entries
GetStatistics ==
    /\ UNCHANGED <<probe, expired, backendVars, clear_log>>
    /\ AdminCall
    /\ active_anomalies' = update_anomalies(active_anomalies, now)
    /\ UNCHANGED <<pc, exc, is_running, reactors, generation_stats, time_step,
                   now, released>>
    /\ UNCHANGED <<sinkVars, cycleVars, ghostVars>>

\* Fault.resolve through FaultRepository.resolve_fault (backend)
ResolveFault ==
    /\ UNCHANGED <<probe, expired, backendVars, clear_log>>
    /\ AdminCall
    /\ \E f \in faults :
        /\ f.resolved = FALSE
        /\ faults' = (faults \ {f}) \cup {[f EXCEPT !.resolved = TRUE]}
    /\ UNCHANGED <<pc, exc, is_running, reactors, generation_stats, time_step,
                   active_anomalies, now, released>>
    /\ UNCHANGED <<telemetry_topic, alerts_topic, telemetry_rows, reactor_health>>
    /\ UNCHANGED <<cycleVars, ghostVars>>

\* ------------------------------------------------------------ specification
Next ==
    \/ RunCalled
    \/ LoadReactors
    \/ KafkaHealthCheck
    \/ DbHealthCheck
    \/ LoopCheck
    \/ GenerateReading
    \/ SendToKafka
    \/ PublishStall
    \/ PublishTimeout
    \/ StoreInDatabase
    \/ PersistStall
    \/ PersistTimeout
    \/ UpdateReactorHealth
    \/ CheckForFaults
    \/ CreateFault
    \/ UpdateAnomalies
    \/ RemoveExpired
    \/ Sleep
    \/ Cleanup
    \/ DbClose
    \/ InjectAnomaly
    \/ ClearAnomaly
    \/ Stop
    \/ GetStatistics
    \/ ResolveFault

Spec == Init /\ [][Next]_vars

\* the steps of run() inside a cycle: the event loop resumes run() when the
\* call it awaits returns or the timer of the call fires
CycleStep ==
    \/ GenerateReading
    \/ SendToKafka
    \/ PublishTimeout
    \/ StoreInDatabase
    \/ PersistTimeout
    \/ UpdateReactorHealth
    \/ CheckForFaults
    \/ CreateFault
    \/ UpdateAnomalies
    \/ RemoveExpired

\* the runs in which a sink stops answering
LiveInit == Init /\ budget.stall > 0

LiveSpec == LiveInit /\ [][Next]_vars /\ WF_vars(CycleStep)

\* ------------------------------------------------- the engine called directly
\* The functions of the physics engine, the scorer, the classifier and the
\* health updaters, each applied once to arguments drawn from the sets below.

\* reactor_type arguments: the two profiles and a type without a profile
ProbeTypes == {"CANDU", "SMR", "PWR"}
\* anomaly factors: negative, zero, neutral, catalog-sized and very large
ProbeFactors == {-MaxFactor, -100, 0, 100, 250, MaxFactor}
\* metrics the factor is given for
ProbeFactorKeys == {{}, Metrics} \cup {{m} : m \in Metrics}
\* noise far below and far above the mean
NoiseLow == [neutron_flux |-> -12000, core_temperature |-> -10000, pressure |-> -6000,
             vibration |-> -4000, tritium_level |-> -6000]
NoiseHigh == [neutron_flux |-> 3000, core_temperature |-> 5000, pressure |-> 6000,
              vibration |-> 4000, tritium_level |-> 6000]
ProbeNoise == {Quiet, Rough, NoiseLow, NoiseHigh}
\* metric values of a telemetry dict: below, inside and above the normal range
ProbeValues ==
    [neutron_flux     |-> {0, 6000, 12000, 20000},
     core_temperature |-> {20000, 29000, 33000, 40000},
     pressure         |-> {8000, 9500, 12000, 18000},
     vibration        |-> {-100, 0, 2000, 6000, 15000},
     tritium_level    |-> {-1, 5000, 12000, 20000}]
\* health scores handed to the health updaters: every whole point of
\* [0, 100] and its neighbours
ProbeScores == {x \in 0..10000 : x % 100 \in {0, 1, 99}}

\* Reactor.update_health_score (backend): the score is clamped to [0, 100]
\* and the status follows
update_health_score(score) ==
    LET health_score == Max(0, Min(10000, score))
    IN  [health_score |-> health_score,
         status |-> IF health_score >= 9000 THEN "healthy"
                    ELSE IF health_score >= 7000 THEN "warning"
                    ELSE "unhealthy"]

\* generate_telemetry_reading called with a factor map, then scored
ProbeGenerateReading ==
    /\ probe = NoProbe
    /\ \E reactor_type \in ProbeTypes, t \in 0..MaxProbeStep, factor \in ProbeFactors,
          keys \in ProbeFactorKeys, noise \in ProbeNoise :
        LET anomalies == [m \in keys |-> factor]
            reading == generate_telemetry_reading(1, reactor_type, 0, t, anomalies, noise)
        IN  probe' = [op |-> "generate_telemetry_reading", reactor_type |-> reactor_type,
                      time_step |-> t, anomalies |-> anomalies, noise |-> noise,
                      reading |-> reading,
                      health_score |-> calculate_health_score(reading)]
    /\ UNCHANGED <<runVars, backendVars>>

\* calculate_health_score called with a dict that holds any subset of the metrics
ProbeCalculateHealthScore ==
    /\ probe = NoProbe
    /\ \E present \in SUBSET Metrics :
       \E nf \in ProbeValues.neutron_flux, ct \in ProbeValues.core_temperature,
          pr \in ProbeValues.pressure, vb \in ProbeValues.vibration,
          tr \in ProbeValues.tritium_level :
        LET full == [neutron_flux |-> nf, core_temperature |-> ct, pressure |-> pr,
                     vibration |-> vb, tritium_level |-> tr]
            telemetry == [m \in present |-> full[m]]
        IN  probe' = [op |-> "calculate_health_score", telemetry |-> telemetry,
                      health_score |-> calculate_health_score(telemetry)]
    /\ UNCHANGED <<runVars, backendVars>>

\* determine_fault_type called with a reading
ProbeDetermineFaultType ==
    /\ probe = NoProbe
    /\ \E nf \in ProbeValues.neutron_flux, ct \in ProbeValues.core_temperature,
          pr \in ProbeValues.pressure, vb \in ProbeValues.vibration,
          tr \in ProbeValues.tritium_level :
        LET reading == [neutron_flux |-> nf, core_temperature |-> ct, pressure |-> pr,
                        vibration |-> vb, tritium_level |-> tr]
        IN  probe' = [op |-> "determine_fault_type", reading |-> reading,
                      fault_type |-> determine_fault_type(reading)]
    /\ UNCHANGED <<runVars, backendVars>>

\* the body of the loop of update_health_scores for one reading: the score,
\* then check_for_faults; a scorer error ends the loop before any fault check
ProbeCheckForFaults ==
    /\ probe = NoProbe
    /\ \E nf \in ProbeValues.neutron_flux, ct \in ProbeValues.core_temperature,
          pr \in ProbeValues.pressure, vb \in ProbeValues.vibration,
          tr \in ProbeValues.tritium_level :
        LET reading == [reactor_id |-> 1, timestamp |-> 0,
                        neutron_flux |-> nf, core_temperature |-> ct, pressure |-> pr,
                        vibration |-> vb, tritium_level |-> tr]
            health_score == calculate_health_score(reading)
        IN  probe' = [op |-> "check_for_faults", reading |-> reading,
                      health_score |-> health_score,
                      fault |-> IF health_score = ZeroDivisionError
                                THEN NoFaultData
                                ELSE DetectFault(reading, health_score)]
    /\ UNCHANGED <<runVars, backendVars>>

\* a score handed to update_reactor_health (generator), to
\* Reactor.update_health_score (backend) and to the severity of check_for_faults
ProbeUpdateHealth ==
    /\ probe = NoProbe
    /\ \E health_score \in ProbeScores :
        probe' = [op |-> "update_reactor_health", health_score |-> health_score,
                  status |-> StatusFor(health_score),
                  backend |-> update_health_score(health_score),
                  severity |-> SeverityFor(health_score)]
    /\ UNCHANGED <<runVars, backendVars>>

\* normal_ranges of Telemetry.is_within_normal_ranges (backend)
telemetry_normal_ranges ==
    [neutron_flux     |-> [min_val |-> 10000, max_val |-> 15000],
     core_temperature |-> [min_val |-> 26000, max_val |-> 32000],
     pressure         |-> [min_val |-> 10000, max_val |-> 15000],
     vibration        |-> [min_val |-> 0,     max_val |-> 5000],
     tritium_level    |-> [min_val |-> 0,     max_val |-> 10000]]

\* variant: the two statuses are exchanged
IssueStatusInverted(value, max_val) == IF value > max_val THEN "low" ELSE "high"

\* "high" if value > max_val else "low"
IssueStatus(value, max_val) == IF value > max_val THEN "high" ELSE "low"

\* Telemetry.is_within_normal_ranges (backend). telemetry maps the columns
\* that are not None to their values; issues maps each metric with an issue
\* to the status of the issue.
is_within_normal_ranges(telemetry) ==
    LET flagged == {metric \in Metrics :
                        /\ metric \in DOMAIN telemetry
                        /\ ~(/\ telemetry_normal_ranges[metric].min_val <= telemetry[metric]
                             /\ telemetry[metric] <= telemetry_normal_ranges[metric].max_val)}
        issues == [metric \in flagged |->
                      IssueStatus(telemetry[metric], telemetry_normal_ranges[metric].max_val)]
    IN  [is_normal |-> flagged = {}, issues |-> issues]

\* Telemetry.calculate_health_contribution (backend), in hundredths of a point
calculate_health_contribution(telemetry) ==
    LET result == is_within_normal_ranges(telemetry)
        high == {metric \in DOMAIN result.issues : result.issues[metric] = "high"}
        low == DOMAIN result.issues \ high
    IN  IF result.is_normal THEN 10000
        ELSE Max(0, 10000 - 1500 * Cardinality(high) - 1000 * Cardinality(low))

\* column values of a telemetry row: the ends of the normal range and their
\* neighbours outside
TelemetryValues ==
    [neutron_flux     |-> {9999, 10000, 15000, 15001},
     core_temperature |-> {25999, 26000, 32000, 32001},
     pressure         |-> {9999, 10000, 15000, 15001},
     vibration        |-> {-1, 0, 5000, 5001},
     tritium_level    |-> {-1, 0, 10000, 10001}]

\* the two backend methods called on a row with any subset of its columns set
ProbeHealthContribution ==
    /\ probe = NoProbe
    /\ \E present \in SUBSET Metrics :
       \E nf \in TelemetryValues.neutron_flux, ct \in TelemetryValues.core_temperature,
          pr \in TelemetryValues.pressure, vb \in TelemetryValues.vibration,
          tr \in TelemetryValues.tritium_level :
        LET full == [neutron_flux |-> nf, core_temperature |-> ct, pressure |-> pr,
                     vibration |-> vb, tritium_level |-> tr]
            telemetry == [metric \in present |-> full[metric]]
            result == is_within_normal_ranges(telemetry)
        IN  probe' = [op |-> "calculate_health_contribution", telemetry |-> telemetry,
                      is_normal |-> result.is_normal, issues |-> result.issues,
                      contribution |-> calculate_health_contribution(telemetry)]
    /\ UNCHANGED <<runVars, backendVars>>

EngineNext ==
    \/ ProbeGenerateReading
    \/ ProbeCalculateHealthScore
    \/ ProbeDetermineFaultType
    \/ ProbeCheckForFaults
    \/ ProbeUpdateHealth
    \/ ProbeHealthContribution

EngineSpec == Init /\ [][EngineNext]_vars

\* -------------------------------------------- the backend's connection manager
\* ConnectionManager of the backend: the WebSocket endpoints call connect and
\* disconnect, each in the task of its own client, and broadcast_to_all runs
\* in the task of its caller; the tasks interleave at the awaits. The
\* reactor subscriptions are left out: broadcast_to_all does not read them.
Clients == 1..MaxClients

\* list.remove(websocket) on a list that holds every connection once
Remove(connections, websocket) == SelectSeq(connections, LAMBDA x : x # websocket)

RECURSIVE RemoveAll(_, _)
\* for connection in disconnected: self.disconnect(connection)
RemoveAll(connections, disconnected) ==
    IF disconnected = <<>> THEN connections
    ELSE RemoveAll(Remove(connections, Head(disconnected)), Tail(disconnected))

\* connect(websocket): accept, then append
Connect ==
    /\ \E websocket \in Clients :
        /\ \A k \in 1..Len(active_connections) : active_connections[k] # websocket
        /\ active_connections' = Append(active_connections, websocket)
    /\ UNCHANGED <<broadcast, runVars, probe>>

\* disconnect(websocket): remove the connection if it is in the list
Disconnect ==
    /\ \E websocket \in Clients :
        /\ \E k \in 1..Len(active_connections) : active_connections[k] = websocket
        /\ active_connections' = Remove(active_connections, websocket)
        /\ broadcast' = [broadcast EXCEPT !.stayed = @ \ {websocket}]
    /\ UNCHANGED <<runVars, probe>>

\* for connection in self.active_connections: the iterator reads the live
\* list at its position and stops when the position is past the end
HasNext(connections, i) == i < Len(connections)

\* broadcast_to_all(message) up to its first await: return on an empty list,
\* else take the first connection and await its send_text
BroadcastStart ==
    /\ broadcast.state \in {"idle", "done"}
    /\ IF active_connections = <<>>
       THEN broadcast' = [NoBroadcast EXCEPT !.state = "done"]
       ELSE broadcast' = [state |-> "sending", i |-> 1,
                          connection |-> active_connections[1],
                          disconnected |-> <<>>,
                          attempted |-> {active_connections[1]},
                          stayed |-> {active_connections[k] : k \in 1..Len(active_connections)}]
    /\ UNCHANGED <<active_connections, runVars, probe>>

\* the awaited send_text returns or raises; the loop takes the next
\* connection and awaits its send, or ends and disconnects the failed ones
BroadcastSendReturns ==
    /\ broadcast.state = "sending"
    /\ \E ok \in BOOLEAN :
        LET disconnected == IF ok THEN broadcast.disconnected
                            ELSE Append(broadcast.disconnected, broadcast.connection)
            iterable == active_connections
        IN  IF HasNext(iterable, broadcast.i)
            THEN /\ broadcast' = [broadcast EXCEPT
                                    !.i = @ + 1,
                                    !.connection = iterable[broadcast.i + 1],
                                    !.disconnected = disconnected,
                                    !.attempted = @ \cup {iterable[broadcast.i + 1]}]
                 /\ active_connections' = active_connections
            ELSE /\ broadcast' = [state |-> "done", i |-> broadcast.i,
                                  connection |-> 0,
                                  disconnected |-> disconnected,
                                  attempted |-> broadcast.attempted,
                                  stayed |-> broadcast.stayed]
                 /\ active_connections' = RemoveAll(active_connections, disconnected)
    /\ UNCHANGED <<runVars, probe>>

BroadcastNext ==
    \/ Connect
    \/ Disconnect
    \/ BroadcastStart
    \/ BroadcastSendReturns

BroadcastSpec == Init /\ [][BroadcastNext]_vars

\* ------------------------------------------------------------------ claims
AllPhases == {"generate", "publish", "persist", "health"}

\* the tracker entry is present and its duration has not elapsed at time t
Unexpired(entry, t) == DOMAIN entry # {} /\ entry.expires_at >= t

\* C1: after an inject of a catalog type whose duration has not elapsed, the
\* next reading of that reactor is the one the engine computes with the
\* catalog factor map of the entry's (type, severity); a reactor without an
\* entry gets the reading computed with every factor at 1.0.
C1_ReadingUsesCatalogFactors ==
    \A i \in 1..Len(gen_trace) :
        LET g == gen_trace[i]
            factors == IF Unexpired(g.anomalies, timestamp)
                       THEN generate_anomaly(g.anomalies.type, g.anomalies.severity)
                       ELSE EmptyDict
        IN  ~g.failed /\ (DOMAIN g.anomalies = {} \/ Unexpired(g.anomalies, timestamp))
            => g.reading = generate_telemetry_reading(g.reactor_id, g.reactor_type,
                               timestamp, g.time_step, factors, g.noise)

\* C2: the sweep runs before the readings of a cycle are generated, so while
\* a cycle generates its readings the tracker holds no entry that had already
\* expired when the cycle started.
C2_SweptBeforeGeneration ==
    pc = "generate" =>
        \A r \in DOMAIN active_anomalies : ~(active_anomalies[r].expires_at < cycle_start)

\* C3: an inject replaces the entry of its reactor entirely: right after an
\* accepted inject the entry holds exactly the catalog factor map of the new
\* (type, severity), the new type and severity and expiry = now + duration,
\* the other reactors' entries are untouched, the tracker is keyed by reactor
\* (one entry each), and no reading is computed with anything but either no
\* factors or the factor map of the entry in place.
C3_TrackerKeyedByReactor ==
    /\ DOMAIN active_anomalies \subseteq ReactorIds
    /\ \A i \in 1..Len(gen_trace) :
        LET g == gen_trace[i]
        IN  ~g.failed =>
              \/ g.reading = generate_telemetry_reading(g.reactor_id, g.reactor_type,
                                 timestamp, g.time_step, EmptyDict, g.noise)
              \/ /\ DOMAIN g.anomalies # {}
                 /\ g.reading = generate_telemetry_reading(g.reactor_id, g.reactor_type,
                                 timestamp, g.time_step,
                                 generate_anomaly(g.anomalies.type, g.anomalies.severity),
                                 g.noise)

C3_InjectStep ==
    inject_log' # inject_log /\ inject_log'.accepted =>
        LET r == inject_log'.reactor_id
        IN  /\ r \in DOMAIN active_anomalies'
            /\ active_anomalies'[r] =
                  [factors |-> generate_anomaly(inject_log'.anomaly_type, inject_log'.severity),
                   expires_at |-> now + inject_log'.duration,
                   type |-> inject_log'.anomaly_type,
                   severity |-> inject_log'.severity]
            /\ \A q \in ReactorIds \ {r} :
                  /\ (q \in DOMAIN active_anomalies') = (q \in DOMAIN active_anomalies)
                  /\ q \in DOMAIN active_anomalies => active_anomalies'[q] = active_anomalies[q]

C3_InjectReplacesEntry == [](C3_TrackerKeyedByReactor) /\ [][C3_InjectStep]_vars

\* an inject replaced an entry of another type and a reading of that reactor
\* was generated afterwards
C3_Witness ==
    /\ inject_log.accepted
    /\ DOMAIN inject_log.prior # {}
    /\ inject_log.prior.type # inject_log.anomaly_type
    /\ \E i \in 1..Len(gen_trace) :
        /\ gen_trace[i].reactor_id = inject_log.reactor_id
        /\ ~gen_trace[i].failed
        /\ DOMAIN gen_trace[i].anomalies # {}
        /\ gen_trace[i].anomalies.type = inject_log.anomaly_type
        /\ gen_trace[i].anomalies.expires_at = inject_log.at + inject_log.duration

C4_CreateFaultStep ==
    pc = "create_fault" /\ pc' # "create_fault" =>
        LET similar == \E f \in faults :
                          /\ f.reactor_id = fault_data.reactor_id
                          /\ f.fault_type = fault_data.fault_type
                          /\ f.resolved = FALSE
                          /\ now - f.timestamp < DedupeWindow
        IN  IF similar
            THEN faults' = faults /\ fault_step'.outcome # "written"
            ELSE \/ fault_step'.outcome = "db_error" /\ faults' = faults
                 \/ /\ fault_step'.outcome = "written"
                    /\ Cardinality(faults') = Cardinality(faults) + 1
                    /\ faults \subseteq faults'
                    /\ \E g \in faults' \ faults :
                          /\ g.reactor_id = fault_data.reactor_id
                          /\ g.fault_type = fault_data.fault_type
                          /\ g.timestamp = fault_data.timestamp
                          /\ g.resolved = FALSE

C5_NoAlertForSuppressedFault ==
    fault_step.outcome = "suppressed" => ~fault_step.alerted

\* C6: after the publish phase the publish successes of the cycle plus the
\* errors counted for publishing equal the number of readings in the batch.
C6_PublishFailuresCounted ==
    pc = "persist" =>
        (generation_stats.successful_kafka - cyc.stats0.successful_kafka)
        + (generation_stats.errors - cyc.stats0.errors - Cardinality(cyc.gen_failed))
        = Len(readings)

\* C7: after the persist phase the store-success counter rose by the number
\* of rows written and the error counter by the number of readings whose
\* persist failed.
C7_PersistFailuresCounted ==
    "persist" \in cyc.phases =>
        /\ generation_stats.successful_db - cyc.stats0.successful_db = cyc.rows_written
        /\ generation_stats.errors - cyc.stats0.errors - Cardinality(cyc.gen_failed)
           = cyc.persist_failed

\* C8: a reactor whose reading failed to generate has no reading in the cycle
\* and is counted as one error and no reading; every other reactor has exactly
\* one reading; the cycle goes on through publish, persist and health scoring.
C8_GenerationFailureIsolated ==
    pc \in CyclePhases \ {"generate"} =>
        /\ \A i \in 1..Len(reactors) :
            Cardinality({j \in 1..Len(readings) : readings[j].reactor_id = reactors[i].id})
            = IF reactors[i].id \in cyc.gen_failed THEN 0 ELSE 1
        /\ generation_stats.total_readings - cyc.stats0.total_readings = Len(readings)
        /\ generation_stats.errors - cyc.stats0.errors = Cardinality(cyc.gen_failed)
        /\ pc = "sweep" => cyc.phases = AllPhases

\* one reactor failed, the other one was processed to the end of the cycle
C8_Witness ==
    /\ pc = "sweep"
    /\ Cardinality(cyc.gen_failed) = 1
    /\ Len(readings) = 1
    /\ cyc.phases = AllPhases

\* C9: a stop() issued during a cycle does not interrupt it: the cycle is left
\* only from its last step with all phases completed, the loop exits only at
\* the loop test, and after the exit no cycle is started.
C9_StopSeenCycleCompleted ==
    cyc.stop_seen /\ pc \notin CyclePhases => cyc.phases = AllPhases

C9_LoopStep ==
    /\ pc \in CyclePhases /\ pc' \notin CyclePhases
         => pc = "sweep_remove" /\ cyc.phases = AllPhases /\ pc' \in {"sleep", "loop_check"}
    /\ pc = "loop_check" /\ ~is_running => pc' = "cleanup"
    /\ pc \in {"cleanup", "db_close", "returned", "raised"}
         => hist'.cycles = hist.cycles /\ pc' \in {"cleanup", "db_close", "returned", "raised"}

C9_StopOnlyAtCycleBoundary == [](C9_StopSeenCycleCompleted) /\ [][C9_LoopStep]_vars

\* stop() arrived during a cycle, the cycle completed and run() returned
C9_Witness ==
    /\ cyc.stop_seen
    /\ pc = "returned"
    /\ cyc.phases = AllPhases
    /\ hist.cycles_after_stop = 0

\* C10: the scheduler is not running before run() is called, and after a
\* stop() issued at any time after run() was invoked no cycle is started.
C10_StopAfterRunIsHonored ==
    /\ pc = "idle" => ~is_running
    /\ hist.cycles_after_stop = 0

\* C11: on every exit path of run() cleanup() has run before run() returns
\* or raises: run() ends only from the last step of cleanup(), and at the
\* exit the close of both sinks has been carried out, so that a sink is
\* released unless its own close failed (a failed close of one sink never
\* leaves the other one open).
C11_BothSinksClosedAtExit ==
    pc \in {"returned", "raised"} =>
        /\ released.kafka # "open"
        /\ released.db # "open"
        /\ (pc = "raised") = exc

C11_ExitStep ==
    pc' \in {"returned", "raised"} /\ pc \notin {"returned", "raised"} => pc = "db_close"

C11_CleanupOnEveryExit == [](C11_BothSinksClosedAtExit) /\ [][C11_ExitStep]_vars

\* run() raised after a startup failure, the close of the bus publisher
\* failed and the store client was released all the same
C11_Witness ==
    /\ pc = "raised"
    /\ hist.startup_failed
    /\ released.kafka = "close_failed"
    /\ released.db = "closed"

\* C12: after a failure of the registry load, the bus health check or the
\* store health check, run() goes to cleanup and raises without entering the
\* run loop: is_running stays false, the start timestamp stays unset, no cycle
\* is started and no reading is generated, published or persisted.
C12_StartupFailureAborts ==
    hist.startup_failed =>
        /\ exc
        /\ pc \in {"cleanup", "db_close", "raised"}
        /\ ~is_running
        /\ generation_stats.start_time = NoTime
        /\ hist.cycles = 0
        /\ generation_stats.total_readings = 0
        /\ Len(gen_trace) = 0
        /\ telemetry_topic = 0
        /\ telemetry_rows = 0

\* the bus health check failed after the registry was loaded and run() raised
C12_Witness ==
    /\ hist.startup_failed
    /\ pc = "raised"
    /\ reactors = Registry

\* C13: inject and clear calls interleaved with the scheduler take effect
\* atomically on the tracker: the sweep removes only entries that are expired
\* when it removes them (never an entry injected with a future expiry after
\* the sweep selected the reactor), it never fails on an entry cleared in the
\* meantime, and every entry the tracker holds or a generate call reads is a
\* complete one.
C13_CompleteEntry(entry) ==
    /\ DOMAIN entry = {"factors", "expires_at", "type", "severity"}
    /\ entry.type \in get_anomaly_types
    /\ entry.factors = generate_anomaly(entry.type, entry.severity)

C13_EntriesComplete ==
    /\ \A r \in DOMAIN active_anomalies : C13_CompleteEntry(active_anomalies[r])
    /\ \A i \in 1..Len(gen_trace) :
          DOMAIN gen_trace[i].anomalies # {} => C13_CompleteEntry(gen_trace[i].anomalies)

C13_SweepStep ==
    pc = "sweep_remove" /\ pc' # "sweep_remove" =>
        /\ exc' = exc
        /\ pc' \in {"sleep", "loop_check"}
        /\ \A r \in DOMAIN active_anomalies :
              r \notin DOMAIN active_anomalies' => active_anomalies[r].expires_at < now
        /\ \A r \in DOMAIN active_anomalies' :
              /\ r \in DOMAIN active_anomalies
              /\ active_anomalies'[r] = active_anomalies[r]
              /\ active_anomalies[r].expires_at >= now

C13_TrackerOperationsAtomic == [](C13_EntriesComplete) /\ [][C13_SweepStep]_vars

\* during a cycle an inject gave a reactor an entry with a future expiry, and
\* the sweep of that cycle is about to remove the expired entry of another
\* reactor
C13_Witness ==
    /\ pc = "sweep_remove"
    /\ expired # {}
    /\ cycle_start > 0
    /\ inject_log.accepted
    /\ inject_log.at = cycle_start
    /\ inject_log.reactor_id \in DOMAIN active_anomalies \ expired
    /\ active_anomalies[inject_log.reactor_id].expires_at > now

\* C14: an inject with a type outside the catalog is rejected and changes
\* nothing: the tracker after the call is the tracker before it (no entry is
\* created, an active entry of the reactor keeps its type, severity, factor
\* map and expiry), and no tracker entry ever carries an unknown type.
C14_NoUnknownType ==
    \A r \in DOMAIN active_anomalies : active_anomalies[r].type \in get_anomaly_types

C14_RejectStep ==
    inject_log' # inject_log /\ inject_log'.anomaly_type \notin get_anomaly_types =>
        /\ ~inject_log'.accepted
        /\ active_anomalies' = active_anomalies
        /\ ActiveGet(active_anomalies', inject_log'.reactor_id) = inject_log'.prior

C14_UnknownTypeRejected == [](C14_NoUnknownType) /\ [][C14_RejectStep]_vars

\* an inject of an unknown type was rejected for a reactor whose anomaly is
\* still in place, unchanged
C14_Witness ==
    /\ inject_log.anomaly_type \notin get_anomaly_types
    /\ ~inject_log.accepted
    /\ DOMAIN inject_log.prior # {}
    /\ ActiveGet(active_anomalies, inject_log.reactor_id) = inject_log.prior

\* C15: for every profile, time step, noise value and anomaly factor (zero,
\* negative and very large ones included) the reading the engine returns has
\* neutron flux in [0, 1.3 base], core temperature in [200, 400], pressure in
\* [8, 18], vibration in [0, 15] and tritium in [0, 2000].
C15_ReadingWithinClamps ==
    probe.op = "generate_telemetry_reading" =>
        LET r == probe.reading
            base == ProfileOf(probe.reactor_type).base_neutron_flux
        IN  /\ 0 <= r.neutron_flux /\ 10 * r.neutron_flux <= 13 * base
            /\ 20000 <= r.core_temperature /\ r.core_temperature <= 40000
            /\ 8000 <= r.pressure /\ r.pressure <= 18000
            /\ 0 <= r.vibration /\ r.vibration <= 15000
            /\ 0 <= r.tritium_level /\ r.tritium_level <= 20000

\* a reading generated with a negative factor on every metric: every metric
\* sits on its lower clamp
C15_Witness ==
    /\ probe.op = "generate_telemetry_reading"
    /\ DOMAIN probe.anomalies = Metrics
    /\ \A m \in Metrics : probe.anomalies[m] = -MaxFactor
    /\ probe.noise = NoiseHigh
    /\ probe.reading.neutron_flux = 0
    /\ probe.reading.core_temperature = 20000
    /\ probe.reading.pressure = 8000
    /\ probe.reading.vibration = 0
    /\ probe.reading.tritium_level = 0

C17_BaselineScoresFull ==
    /\ probe.op = "generate_telemetry_reading"
    /\ probe.reactor_type \in DOMAIN reactor_profiles
    /\ probe.time_step = 0
    /\ probe.noise = Quiet
    /\ \A m \in DOMAIN probe.anomalies : probe.anomalies[m] = 100
    => probe.health_score = 10000

\* C18: the fault type of a reading is the first match of the ordered list
\* temperature > 320, pressure < 10, vibration > 5, flux > 1.5e13,
\* tritium > 1000, and none when no threshold is breached: one fault type per
\* reading, whatever the number of thresholds breached.
C18_Breaches(reading) ==
    <<reading.core_temperature > 32000, reading.pressure < 10000,
      reading.vibration > 5000, reading.neutron_flux > 15000,
      reading.tritium_level > 10000>>

C18_FaultNames ==
    <<"temperature_spike", "pressure_drop", "vibration_high", "flux_instability",
      "tritium_high">>

C18_FirstMatch ==
    probe.op = "determine_fault_type" =>
        LET breaches == C18_Breaches(probe.reading)
            hits == {i \in 1..5 : breaches[i]}
        IN  IF hits = {}
            THEN probe.fault_type = NoFault
            ELSE \E i \in hits :
                    /\ \A j \in hits : i <= j
                    /\ probe.fault_type = C18_FaultNames[i]

\* temperature and vibration both breached: temperature_spike is reported
C18_Witness ==
    /\ probe.op = "determine_fault_type"
    /\ probe.reading.core_temperature > 32000
    /\ probe.reading.vibration > 5000
    /\ probe.reading.pressure >= 10000
    /\ probe.fault_type = "temperature_spike"

\* C19: a fault is built for a reading exactly when its score is below 90
\* and the classifier returns a fault type; its severity is red iff the
\* score is below 70 and yellow iff the score is in [70, 90); a reading with
\* score >= 90 raises no fault even when a metric breaches a threshold.
C19_FaultIffLowScoreAndType ==
    probe.op = "check_for_faults" =>
        LET scored == probe.health_score # ZeroDivisionError
            hits == {i \in 1..5 : C18_Breaches(probe.reading)[i]}
            raised == probe.fault # NoFaultData
        IN  /\ raised = (scored /\ probe.health_score < 9000 /\ hits # {})
            /\ raised =>
                  /\ probe.fault.reactor_id = probe.reading.reactor_id
                  /\ probe.fault.timestamp = probe.reading.timestamp
                  /\ probe.fault.fault_type \in {C18_FaultNames[i] : i \in hits}
                  /\ (probe.fault.severity = "red") = (probe.health_score < 7000)
                  /\ (probe.fault.severity = "yellow") =
                        (7000 <= probe.health_score /\ probe.health_score < 9000)

\* a reading that breaches a threshold and scores 90 or more: no fault
C19_Witness ==
    /\ probe.op = "check_for_faults"
    /\ probe.health_score >= 9000
    /\ probe.reading.tritium_level > 10000
    /\ probe.fault = NoFaultData

\* C20: the health update maps a score in [0, 100] to healthy if it is >= 90,
\* warning if it is in [70, 90), unhealthy otherwise; the status is healthy
\* iff no fault severity applies, warning iff the severity is yellow,
\* unhealthy iff it is red; the backend's Reactor.update_health_score assigns
\* the same status.
C20_StatusAgreesWithSeverity ==
    probe.op = "update_reactor_health" =>
        /\ (probe.status = "healthy") = (probe.health_score >= 9000)
        /\ (probe.status = "warning") =
              (7000 <= probe.health_score /\ probe.health_score < 9000)
        /\ (probe.status = "unhealthy") = (probe.health_score < 7000)
        /\ (probe.status = "healthy") = (probe.severity = "none")
        /\ (probe.status = "warning") = (probe.severity = "yellow")
        /\ (probe.status = "unhealthy") = (probe.severity = "red")
        /\ probe.backend.status = probe.status
        /\ probe.backend.health_score = probe.health_score

\* a score of exactly 90: healthy in both updaters, no severity
C20_Witness ==
    /\ probe.op = "update_reactor_health"
    /\ probe.health_score = 9000
    /\ probe.status = "healthy"
    /\ probe.backend.status = "healthy"
    /\ probe.severity = "none"

\* C21: clearing the anomaly of a reactor removes that reactor's entry when
\* there is one and does nothing when there is none; the entries of the other
\* reactors and the time step stay as they were; the next reading generated
\* for the reactor is built without anomaly factors.
C21_ClearStep ==
    clear_log'.call # clear_log.call =>
        /\ DOMAIN active_anomalies' = DOMAIN active_anomalies \ {clear_log'.reactor_id}
        /\ \A q \in DOMAIN active_anomalies' : active_anomalies'[q] = active_anomalies[q]
        /\ time_step' = time_step
        /\ pc' = pc
        /\ exc' = exc

C21_ReadingStep ==
    (/\ pc = "generate"
     /\ Len(gen_trace') = Len(gen_trace) + 1
     /\ clear_log.pending
     /\ gen_trace'[Len(gen_trace')].reactor_id = clear_log.reactor_id)
    => LET e == gen_trace'[Len(gen_trace')]
       IN /\ e.anomalies = EmptyDict
          /\ ~e.failed =>
                e.reading = generate_telemetry_reading(e.reactor_id, e.reactor_type,
                                timestamp, e.time_step, EmptyDict, e.noise)

C21_ClearRemovesOnlyItsEntry ==
    /\ [](clear_log.pending => clear_log.reactor_id \notin DOMAIN active_anomalies)
    /\ [][C21_ClearStep /\ C21_ReadingStep]_vars

\* an entry that had not expired was cleared, and a later cycle generated the
\* reactor's reading without factors
C21_Witness ==
    /\ clear_log.pending
    /\ clear_log.prior # EmptyDict
    /\ clear_log.at < timestamp
    /\ clear_log.prior.expires_at >= timestamp
    /\ \E i \in 1..Len(gen_trace) :
        /\ gen_trace[i].reactor_id = clear_log.reactor_id
        /\ ~gen_trace[i].failed
        /\ gen_trace[i].anomalies = EmptyDict

\* C22: the backend's range check calls a row normal, with no issues, exactly
\* when every column that is set lies in its normal range (ends included);
\* the health contribution is 100 exactly then, and otherwise 100 less 15 for
\* every column above its range and 10 for every column below, never under 0.
C22_High(t) == {m \in DOMAIN t : t[m] > telemetry_normal_ranges[m].max_val}

C22_Low(t) == {m \in DOMAIN t : t[m] < telemetry_normal_ranges[m].min_val}

C22_ContributionFollowsRanges ==
    probe.op = "calculate_health_contribution" =>
        LET high == C22_High(probe.telemetry)
            low == C22_Low(probe.telemetry)
        IN /\ probe.is_normal = (high \cup low = {})
           /\ probe.is_normal => DOMAIN probe.issues = {}
           /\ DOMAIN probe.issues = high \cup low
           /\ (probe.contribution = 10000) = probe.is_normal
           /\ probe.contribution =
                 10000 - 1500 * Cardinality(high) - 1000 * Cardinality(low)
           /\ probe.contribution >= 0

\* one column above its range, one below, one unset and the others on the
\* ends of their ranges: 100 - 15 - 10
C22_Witness ==
    /\ probe.op = "calculate_health_contribution"
    /\ Cardinality(DOMAIN probe.telemetry) = 4
    /\ Cardinality(C22_High(probe.telemetry)) = 1
    /\ Cardinality(C22_Low(probe.telemetry)) = 1
    /\ probe.contribution = 7500

\* C23: the time step starts at 0, is one counter for all reactors, rises by
\* exactly 1 with every reading generated and never falls or restarts; the
\* inject, clear, sweep and statistics operations leave it as it is.
C23_TimeStepStep ==
    /\ time_step' # time_step <=>
            (pc = "generate" /\ Len(readings') = Len(readings) + 1)
    /\ time_step' # time_step => time_step' = time_step + 1

C23_TimeStepCountsReadings ==
    /\ [](pc = "idle" => time_step = 0)
    /\ [](time_step = generation_stats.total_readings)
    /\ [][C23_TimeStepStep]_vars

\* the second cycle goes on counting where the first one ended, after a clear
\* call
C23_Witness ==
    /\ hist.cycles >= 2
    /\ Len(readings) = Len(reactors)
    /\ time_step = 2 * Len(reactors)
    /\ clear_log.call > 0

\* C24: a cycle generates, publishes, persists, scores and checks faults in
\* this order: nothing is published or persisted before every reactor had
\* its turn in the generation loop, publishing precedes persisting, no health
\* score is written before persisting has finished, and for each reading the
\* health update precedes its fault check.
C24_PhaseStep ==
    /\ telemetry_topic' # telemetry_topic =>
            pc \in {"publish", "publish_stalled"} /\ pc' = "persist"
    /\ telemetry_rows' # telemetry_rows =>
            pc \in {"persist", "persist_stalled"} /\ "publish" \in cyc.phases
    /\ reactor_health' # reactor_health =>
            pc = "update_health" /\ "persist" \in cyc.phases
    /\ (pc' = "check_faults" /\ pc # "check_faults") =>
            pc = "update_health" /\ idx' = idx
    /\ (pc' = "create_fault" /\ pc # "create_fault") => pc = "check_faults"
    /\ (pc' \in {"persist", "persist_stalled"} /\ pc \notin {"persist", "persist_stalled"})
            => pc \in {"publish", "publish_stalled"}
    /\ (pc' = "update_health" /\ pc # "update_health") =>
            pc \in {"persist", "persist_stalled", "check_faults", "create_fault"}

C24_PhaseOrder ==
    /\ [](pc \in CyclePhases \ {"generate"} => Len(gen_trace) = Len(reactors))
    /\ [](pc \in {"generate", "publish", "publish_stalled"} => "persist" \notin cyc.phases)
    /\ [][C24_PhaseStep]_vars

\* a reading's fault is about to be recorded after the batch was published
\* and persisted and the reading's reactor scored
C24_Witness ==
    /\ pc = "create_fault"
    /\ {"generate", "publish", "persist"} \subseteq cyc.phases
    /\ telemetry_topic > 0
    /\ telemetry_rows > 0
    /\ reactor_health[readings[idx].reactor_id].status # "healthy"

\* C25: after a cycle the scheduler sleeps the interval minus the time the
\* cycle took when that is positive; otherwise it starts the next cycle at
\* once; every iteration of the loop runs one cycle, and time never runs
\* backwards over a sleep.
C25_SleepStep ==
    /\ (pc = "sweep_remove" /\ pc' \notin {"sweep_remove", "cleanup"}) =>
            /\ now' = now
            /\ pc' = IF GenerationInterval - (now - cycle_start) > 0
                     THEN "sleep" ELSE "loop_check"
    /\ (pc = "sleep" /\ pc' = "loop_check") =>
            /\ now' > now
            /\ now' = cycle_start + GenerationInterval
    /\ (pc = "loop_check" /\ pc' \in CyclePhases) =>
            /\ hist'.cycles = hist.cycles + 1
            /\ cycle_start' = now
            /\ now' = now
    /\ hist'.cycles # hist.cycles => pc = "loop_check"
    /\ now' >= now

C25_SleepsTheRemainder == [][C25_SleepStep]_vars

\* the first cycle took longer than the interval and the second one started
\* when it ended
C25_Witness ==
    /\ hist.cycles = 2
    /\ pc = "generate"
    /\ cycle_start > GenerationInterval
    /\ now = cycle_start

\* C26: the four counters never decrease; the start timestamp is set once,
\* when the scheduler starts running, and stays as it is afterwards.
C26_CounterStep ==
    /\ generation_stats'.total_readings >= generation_stats.total_readings
    /\ generation_stats'.successful_kafka >= generation_stats.successful_kafka
    /\ generation_stats'.successful_db >= generation_stats.successful_db
    /\ generation_stats'.errors >= generation_stats.errors
    /\ generation_stats'.start_time # generation_stats.start_time =>
            /\ generation_stats.start_time = NoTime
            /\ ~is_running
            /\ is_running'

C26_CountersMonotonic ==
    /\ [](is_running => generation_stats.start_time # NoTime)
    /\ [][C26_CounterStep]_vars

\* two cycles in which all four counters rose, the start time still the one
\* of the startup
C26_Witness ==
    /\ hist.cycles >= 2
    /\ generation_stats.total_readings > Len(reactors)
    /\ generation_stats.successful_kafka > Len(reactors)
    /\ generation_stats.successful_db > 0
    /\ generation_stats.errors > 0
    /\ generation_stats.start_time = 0
    /\ now > 0

\* C28: the duplicate check counts only unresolved faults: a fault is
\* suppressed only when an unresolved fault of the same reactor and type
\* exists, and when every earlier fault of that reactor and type is resolved
\* a new record is written even within the hour.
C28_SameKey ==
    {f \in faults : /\ f.reactor_id = fault_data.reactor_id
                    /\ f.fault_type = fault_data.fault_type}

C28_DedupeStep ==
    (pc = "create_fault" /\ pc' # "create_fault") =>
        /\ fault_step'.outcome = "suppressed" =>
                \E f \in C28_SameKey : ~f.resolved /\ f.timestamp > now - DedupeWindow
        /\ ((\A f \in C28_SameKey : f.resolved) /\ fault_step'.outcome # "db_error") =>
                /\ fault_step'.outcome = "written"
                /\ Cardinality(faults') = Cardinality(faults) + 1
                /\ \E f \in faults' \ faults :
                    /\ f.reactor_id = fault_data.reactor_id
                    /\ f.fault_type = fault_data.fault_type
                    /\ ~f.resolved

C27_TimeoutStep ==
    /\ (pc = "publish_stalled" /\ pc' # pc) =>
            /\ pc' = "persist"
            /\ generation_stats'.successful_kafka - generation_stats.successful_kafka
               < Len(readings)
            /\ telemetry_topic' - telemetry_topic < Len(readings)
    /\ (pc = "persist_stalled" /\ pc' # pc) =>
            /\ pc' = "update_health"
            /\ generation_stats'.successful_db = generation_stats.successful_db

C27_StalledCycleFinishes ==
    /\ [][C27_TimeoutStep]_vars
    /\ (pc \in {"publish_stalled", "persist_stalled"}) ~> (pc = "sweep")
    /\ (pc \in CyclePhases) ~> (pc \notin CyclePhases)

\* a cycle in which a call timed out went through all its phases and the
\* scheduler sleeps
C27_Witness ==
    /\ pc = "sleep"
    /\ cyc.timeouts # {}
    /\ cyc.phases = AllPhases

\* C29: whenever run() has ended, by returning or by raising, is_running is
\* false.
C29_NotRunningAfterExit ==
    pc \in {"returned", "raised"} => ~is_running

\* C30: broadcast_to_all calls send_text on every connection that stays in
\* active_connections from the beginning of the broadcast to its end, whatever
\* other clients connect, disconnect or fail meanwhile.
C30_NoConnectedClientSkipped ==
    broadcast.state = "done" => broadcast.stayed \subseteq broadcast.attempted

====
